---- MODULE Spec2Model ----
(***************************************************************************)
(* Model of Likhith/training.py: the entry point (lines 134-146),          *)
(* set_config (42-57), results (21-40) and the training loop train         *)
(* (60-131) with its checkpointing policy and its failure boundary.        *)
(*                                                                         *)
(* What is abstracted, and how:                                            *)
(*  - the detection model's parameters are a version number `params`,      *)
(*    advanced by every optimizer.step(); a checkpoint file holds the      *)
(*    version that was current when torch.save was called;                 *)
(*  - the scalar returned by criterion(output, labels) is the token        *)
(*    <<epoch, i>> of the forward pass that produced it: the loop never    *)
(*    inspects the value, it only passes it to the sinks;                  *)
(*  - epoch_accuracy is the exact rational 100*total_correct/total_samples *)
(*    in lowest terms (two quotients of small integers are the same float  *)
(*    exactly when they are the same rational);                            *)
(*  - the sinks (wandb, logging) and torch.save are recorded, in call      *)
(*    order, in `events`; the sink calls themselves are taken to succeed   *)
(*    (with config['wandb'] set, the tracking session is open);            *)
(*  - config['epochs'] and config['checkpoint_epoch'] are positive, as the *)
(*    configuration file format requires.                                  *)
(***************************************************************************)
EXTENDS Integers, Sequences, FiniteSets, TLC

VARIABLES
    pc,             \* control point: "main", "epoch", "batch", "except", "returned", "crashed"
    cli,            \* the argparse Namespace of the entry point (NoArgs when train is called directly)
    config,         \* the configuration dictionary
    dataloader,     \* the object returned by dataset(config)
    epoch,          \* loop variable of line 81 (NoEpoch before the first iteration)
    i,              \* loop variable of line 85: batches drawn so far in this epoch
    total_correct,  \* line 82 / 96
    total_samples,  \* line 83 / 95
    loss,           \* line 89 (NoLoss while unbound)
    best_accuracy,  \* line 117 / 120 (Unbound while unbound)
    params,         \* detection_model.state_dict(): version of the parameters
    error,          \* the exception in flight, as str(e) ("" when none)
    events,         \* calls made to wandb, logging and torch.save, in order
    hist            \* history, one record per started epoch: the tracker and the
                    \* length of `events` at its start, what it drew from the data
                    \* source (batches, samples, correct predictions, last loss),
                    \* the parameters after its last batch, whether the data
                    \* source was drained and whether lines 99-121 completed

vars == <<pc, cli, config, dataloader, epoch, i, total_correct, total_samples,
          loss, best_accuracy, params, error, events, hist>>

----------------------------------------------------------------------------
(* Bounds of the model *)

MaxEpochs == 3
MaxCkpt == 2
MaxBatches == 2

\* labels.size(0) of the batches a data source may yield
BatchSizes == {1, 2}

----------------------------------------------------------------------------
(* Values *)

NoEpoch == -1
NoLoss == <<>>
Unbound == <<>>
NoArgs == [config |-> "", wandb |-> FALSE, log |-> FALSE, debug |-> FALSE]

RECURSIVE GCD(_, _)
GCD(a, b) == IF b = 0 THEN a ELSE GCD(b, a % b)

\* n / d for d > 0, in lowest terms
Rat(n, d) == LET g == GCD(n, d) IN <<n \div g, d \div g>>

\* a > b on rationals
Gt(a, b) == a[1] * b[2] > b[1] * a[2]

\* f"{a:.2f}": a in hundredths, rounded to nearest, ties to even
Fmt2(a) ==
    LET n == 100 * a[1]
        q == n \div a[2]
        r == n % a[2]
    IN IF 2 * r > a[2] \/ (2 * r = a[2] /\ q % 2 = 1) THEN q + 1 ELSE q

RECURSIVE SumSeq(_)
SumSeq(s) == IF s = <<>> THEN 0 ELSE Head(s) + SumSeq(Tail(s))

SeqsUpTo(S, n) == UNION {[1..k -> S] : k \in 0..n}

----------------------------------------------------------------------------
(* results(config), lines 21-40: the two derived paths *)

ResultPath == "result_path"
BestModelPath == <<ResultPath, "best_model.pth">>
ModelPath == <<ResultPath, "det_model_weights">>

results(c) == [c EXCEPT !.best_model_path = BestModelPath, !.model_path = ModelPath]

\* os.path.join(config['model_path'], f'epoch_{epoch}.pth'), line 112
checkpoint_path(c, e) == c.model_path \o <<"epoch", e>>

----------------------------------------------------------------------------
(* set_config, lines 42-57 *)

\* Lines 48-53: every attribute of args that is not None replaces the
\* same-named key; debug switches both sinks off.
Overlay(file, args) ==
    LET merged == [file EXCEPT !.wandb = args.wandb, !.log = args.log, !.debug = args.debug]
    IN IF merged.debug THEN [merged EXCEPT !.wandb = FALSE, !.log = FALSE] ELSE merged

\* `config` is assigned in set_config (lines 47, 56), so it is a local of the
\* function, and no assignment has run when line 46 evaluates args[config].
LocalConfigAtLine46 == Unbound

\* The value of set_config(args) for the configuration file's content `file`:
\* a raised exception or the configuration. Line 46 raises before `args` is
\* used; the other branch is lines 47-57 for an argparse Namespace (line 145
\* passes args.config, a str).
set_config(args, file) ==
    IF LocalConfigAtLine46 = Unbound
    THEN [raised |-> "UnboundLocalError", config |-> file]
    ELSE [raised |-> "", config |-> results(Overlay(file, args))]

----------------------------------------------------------------------------
(* The data source *)

\* Batches the data source yields on its pass-th iteration: a re-iterable
\* loader yields the same batch sizes on every pass, a one-shot iterator is
\* exhausted after its first pass.
Batches(dl, pass) == IF dl.oneshot /\ pass > 0 THEN <<>> ELSE dl.sizes

Dataloaders ==
    [sizes : SeqsUpTo(BatchSizes, MaxBatches), oneshot : BOOLEAN]

----------------------------------------------------------------------------
(* The pieces of train *)

\* variant: the counters are not reset and run on from the previous epoch
CounterCarried(previous) == previous

\* lines 82-83
CounterAtEpochStart(previous) == 0

\* line 89: the loss of the forward pass on batch i of epoch e
criterion(e, b) == <<e, b>>

\* variant: the first loss bound is kept
KeepFirstLoss(old, new) == IF old = NoLoss THEN new ELSE old

\* line 89: `loss` is rebound by every batch
BoundLoss(old, new) == new

ZeroDivisionError == <<1, 0>>

\* variant: an empty epoch counts as 0% instead of raising
epoch_accuracy_guarded(correct, samples) ==
    IF samples = 0 THEN <<0, 1>> ELSE Rat(100 * correct, samples)

\* line 99
epoch_accuracy(correct, samples) ==
    IF samples = 0 THEN ZeroDivisionError ELSE Rat(100 * correct, samples)

\* lines 101-108
EpochRecords(c, e, l, a) ==
    (IF c.wandb
     THEN <<[op |-> "wandb.log", Epoch |-> e, Loss |-> l, Accuracy |-> a]>>
     ELSE <<>>)
    \o
    (IF c.log
     THEN <<[op |-> "logging.info", msg |-> "Epoch", Epoch |-> e, Loss |-> l,
             Accuracy |-> Fmt2(a)]>>
     ELSE <<>>)

\* variant: the interval is counted from 1
PeriodicDueOffByOne(e, c) == (e + 1) % c.checkpoint_epoch = 0

\* line 111
PeriodicDue(e, c) == e % c.checkpoint_epoch = 0

\* variant: a tie counts as a new best
IsNewBestOrTie(e, a, best) == IF e = 0 THEN TRUE ELSE ~Gt(best, a)

\* lines 116, 119
IsNewBest(e, a, best) == IF e = 0 THEN TRUE ELSE Gt(a, best)

\* variant: the tracker is assigned at epoch 0 only
UpdatedBestFirstOnly(e, a, best) == IF e = 0 THEN a ELSE best

\* lines 117, 120
UpdatedBest(e, a, best) == IF IsNewBest(e, a, best) THEN a ELSE best

\* torch.save(detection_model.state_dict(), path)
Save(path, state) == [op |-> "torch.save", path |-> path, state |-> state]

\* variant: the periodic save sits under the `if config['log']` of line 107
PeriodicSaveWhenLogging(c, e, state) ==
    IF c.log /\ e % c.checkpoint_epoch = 0
    THEN <<Save(checkpoint_path(c, e), state)>> ELSE <<>>

\* lines 110-113
PeriodicSave(c, e, state) ==
    IF PeriodicDue(e, c) THEN <<Save(checkpoint_path(c, e), state)>> ELSE <<>>

\* lines 115-121
BestSave(c, e, a, best, state) ==
    IF IsNewBest(e, a, best) THEN <<Save(c.best_model_path, state)>> ELSE <<>>

\* variant: the final line is written under the wandb flag
FinishRecordsOneFlag(c, best) ==
    IF c.wandb
    THEN <<[op |-> "wandb.finish"],
           [op |-> "logging.info", msg |-> "Best accuracy", Accuracy |-> Fmt2(best)]>>
    ELSE <<>>

\* lines 122-125
FinishRecords(c, best) ==
    (IF c.wandb THEN <<[op |-> "wandb.finish"]>> ELSE <<>>)
    \o
    (IF c.log
     THEN <<[op |-> "logging.info", msg |-> "Best accuracy", Accuracy |-> Fmt2(best)]>>
     ELSE <<>>)

\* variant: the error line is written whatever config['log'] says
ErrorRecordsUngated(c, text) ==
    (IF c.wandb THEN <<[op |-> "wandb.alert", text |-> text]>> ELSE <<>>)
    \o <<[op |-> "logging.error", text |-> text]>>

\* lines 126-131
ErrorRecords(c, text) ==
    (IF c.wandb THEN <<[op |-> "wandb.alert", text |-> text]>> ELSE <<>>)
    \o
    (IF c.log THEN <<[op |-> "logging.error", text |-> text]>> ELSE <<>>)

----------------------------------------------------------------------------
(* Initial states *)

FileConfigs ==
    [epochs : 1..MaxEpochs, checkpoint_epoch : 1..MaxCkpt,
     wandb : BOOLEAN, log : BOOLEAN, debug : {FALSE},
     best_model_path : {<<>>}, model_path : {<<>>}]

\* A populated configuration, as train's contract requires it
Configs == {results(c) : c \in FileConfigs}

Namespaces ==
    [config : {"config.json"}, wandb : BOOLEAN, log : BOOLEAN, debug : BOOLEAN]

Locals ==
    /\ epoch = NoEpoch
    /\ i = 0
    /\ total_correct = 0
    /\ total_samples = 0
    /\ loss = NoLoss
    /\ best_accuracy = Unbound
    /\ params = 0
    /\ error = ""
    /\ events = <<>>
    /\ hist = <<>>

\* dataset(config) has not been called yet
NoDataloader == [sizes |-> <<>>, oneshot |-> FALSE]

\* The process is started from the command line (line 134) ...
InitMain ==
    /\ pc = "main"
    /\ cli \in Namespaces
    /\ config \in FileConfigs
    /\ dataloader = NoDataloader
    /\ Locals

\* ... or train(config) is called with a populated configuration; lines
\* 71-79 have built the data source, the models and the optimizer.
InitTrain ==
    /\ pc = "epoch"
    /\ cli = NoArgs
    /\ config \in Configs
    /\ dataloader \in Dataloaders
    /\ Locals

Init == InitMain \/ InitTrain

----------------------------------------------------------------------------
(* Actions *)

\* lines 134-146: parse the flags, set_config(args.config), train(config).
\* An exception of set_config is not caught: the process dies with it.
Main ==
    /\ pc = "main"
    /\ LET r == set_config(cli.config, config)
       IN IF r.raised # ""
          THEN /\ pc' = "crashed"
               /\ error' = r.raised
               /\ UNCHANGED config
          ELSE /\ pc' = "epoch"
               /\ config' = r.config
               /\ UNCHANGED error
    /\ UNCHANGED <<cli, dataloader, epoch, i, total_correct, total_samples,
                   loss, best_accuracy, params, events, hist>>

\* lines 81-83: the next epoch starts
EpochStart ==
    /\ pc = "epoch"
    /\ epoch + 1 < config.epochs
    /\ epoch' = epoch + 1
    /\ total_correct' = CounterAtEpochStart(total_correct)
    /\ total_samples' = CounterAtEpochStart(total_samples)
    /\ i' = 0
    /\ pc' = "batch"
    /\ hist' = Append(hist, [before |-> best_accuracy, mark |-> Len(events),
                             batches |-> 0, samples |-> 0, correct |-> 0,
                             loss |-> NoLoss, params |-> params,
                             drained |-> FALSE, ended |-> FALSE])
    /\ UNCHANGED <<cli, config, dataloader, loss, best_accuracy, params, error, events>>

\* lines 85-96: one batch, every step of the body succeeding
Batch ==
    /\ pc = "batch"
    /\ i < Len(Batches(dataloader, epoch))
    /\ LET size == Batches(dataloader, epoch)[i + 1]
           l == criterion(epoch, i)
       IN \E correct \in 0..size :
            /\ loss' = BoundLoss(loss, l)
            /\ params' = params + 1
            /\ total_samples' = total_samples + size
            /\ total_correct' = total_correct + correct
            /\ hist' = [hist EXCEPT ![Len(hist)] =
                           [@ EXCEPT !.batches = @ + 1, !.samples = @ + size,
                                     !.correct = @ + correct, !.loss = l,
                                     !.params = params + 1]]
    /\ i' = i + 1
    /\ UNCHANGED <<pc, cli, config, dataloader, epoch, best_accuracy, error, events>>

\* The steps of lines 85-91 that can raise
BatchSteps == {"dataloader", "main_model", "detection_model", "criterion",
               "backward", "optimizer.step"}

\* str(e) of the exception a step raises: the text names the collaborator
\* that failed, the data source or the computation on a batch it yielded
ErrorText(step) == IF step = "dataloader" THEN "data source error" ELSE "batch step error"

\* lines 85-91: the data source raises while it is asked for the next batch
\* (also when it has none left), or a later step raises on a batch it
\* yielded; nothing of that batch has been counted
BatchRaises ==
    /\ pc = "batch"
    /\ \E step \in BatchSteps :
         /\ step # "dataloader" => i < Len(Batches(dataloader, epoch))
         /\ error' = ErrorText(step)
    /\ pc' = "except"
    /\ UNCHANGED <<cli, config, dataloader, epoch, i, total_correct, total_samples,
                   loss, best_accuracy, params, events, hist>>

\* lines 99-121 after the data source is exhausted, no call failing
EpochEnd ==
    /\ pc = "batch"
    /\ i = Len(Batches(dataloader, epoch))
    /\ LET a == epoch_accuracy(total_correct, total_samples)
       IN IF a = ZeroDivisionError
          THEN /\ pc' = "except"
               /\ error' = "division by zero"
               /\ hist' = [hist EXCEPT ![Len(hist)].drained = TRUE]
               /\ UNCHANGED <<best_accuracy, events>>
          ELSE /\ pc' = "epoch"
               /\ events' = events
                              \o EpochRecords(config, epoch, loss, a)
                              \o PeriodicSave(config, epoch, params)
                              \o BestSave(config, epoch, a, best_accuracy, params)
               /\ best_accuracy' = UpdatedBest(epoch, a, best_accuracy)
               /\ hist' = [hist EXCEPT ![Len(hist)].drained = TRUE,
                                        ![Len(hist)].ended = TRUE]
               /\ UNCHANGED error
    /\ UNCHANGED <<cli, config, dataloader, epoch, i, total_correct, total_samples,
                   loss, params>>

\* lines 99-121 with a torch.save that raises: the periodic one (line 113) or
\* the best-model one (lines 118, 121, after the tracker was assigned)
SaveRaises ==
    /\ pc = "batch"
    /\ i = Len(Batches(dataloader, epoch))
    /\ LET a == epoch_accuracy(total_correct, total_samples)
       IN /\ a # ZeroDivisionError
          /\ \/ /\ PeriodicDue(epoch, config)
                /\ events' = events \o EpochRecords(config, epoch, loss, a)
                /\ UNCHANGED best_accuracy
             \/ /\ IsNewBest(epoch, a, best_accuracy)
                /\ events' = events
                               \o EpochRecords(config, epoch, loss, a)
                               \o PeriodicSave(config, epoch, params)
                /\ best_accuracy' = UpdatedBest(epoch, a, best_accuracy)
    /\ pc' = "except"
    /\ error' = "torch.save"
    /\ hist' = [hist EXCEPT ![Len(hist)].drained = TRUE]
    /\ UNCHANGED <<cli, config, dataloader, epoch, i, total_correct, total_samples,
                   loss, params>>

\* lines 122-125: range(config['epochs']) is exhausted
Finish ==
    /\ pc = "epoch"
    /\ epoch + 1 >= config.epochs
    /\ events' = events \o FinishRecords(config, best_accuracy)
    /\ pc' = "returned"
    /\ UNCHANGED <<cli, config, dataloader, epoch, i, total_correct, total_samples,
                   loss, best_accuracy, params, error, hist>>

\* lines 126-131
Except ==
    /\ pc = "except"
    /\ events' = events \o ErrorRecords(config, error)
    /\ pc' = "returned"
    /\ UNCHANGED <<cli, config, dataloader, epoch, i, total_correct, total_samples,
                   loss, best_accuracy, params, error, hist>>

Next ==
    \/ Main
    \/ EpochStart
    \/ Batch
    \/ BatchRaises
    \/ EpochEnd
    \/ SaveRaises
    \/ Finish
    \/ Except

Spec == Init /\ [][Next]_vars

----------------------------------------------------------------------------
(* Reading the history and the recorded calls *)

Started == 0..(Len(hist) - 1)
H(e) == hist[e + 1]
Ended == {e \in Started : H(e).ended}

\* positions in `events` of the calls made during epoch e (for the last
\* started epoch, up to the end of the run)
Seg(e) ==
    (H(e).mark + 1)..(IF e + 1 < Len(hist) THEN H(e + 1).mark ELSE Len(events))

IsSave(ev) == ev.op = "torch.save"
IsBestSave(ev) == IsSave(ev) /\ ev.path = config.best_model_path
IsPeriodicSave(ev) == IsSave(ev) /\ ev.path # config.best_model_path
IsMetric(ev) == ev.op = "wandb.log"
IsEpochLine(ev) == ev.op = "logging.info" /\ ev.msg = "Epoch"
IsBestLine(ev) == ev.op = "logging.info" /\ ev.msg = "Best accuracy"
IsFinish(ev) == ev.op = "wandb.finish"
IsAlert(ev) == ev.op = "wandb.alert"
IsErrorLine(ev) == ev.op = "logging.error"

BestSavesIn(e) == {k \in Seg(e) : IsBestSave(events[k])}
PeriodicSavesIn(e) == {k \in Seg(e) : IsPeriodicSave(events[k])}
Saves == SelectSeq(events, IsSave)

\* accuracy of a started epoch that drew at least one sample, from what the
\* data source handed out
AccOf(e) == Rat(100 * H(e).correct, H(e).samples)

\* the accuracies of the started epochs (Unbound while an epoch has no sample)
Accs == [e \in Started |-> IF H(e).samples = 0 THEN Unbound ELSE AccOf(e)]

\* the largest of acc[0], ..., acc[e]
MaxAcc(acc, e) ==
    CHOOSE a \in {acc[j] : j \in 0..e} : \A j \in 0..e : ~Gt(acc[j], a)

\* the earliest epoch of 0..e whose accuracy is MaxAcc(acc, e)
ArgMax(acc, e) ==
    LET m == MaxAcc(acc, e)
    IN CHOOSE j \in 0..e : acc[j] = m /\ \A k \in 0..(j - 1) : acc[k] # m

Succeeded == pc = "returned" /\ error = "" /\ Len(hist) = config.epochs
Failed == pc \in {"except", "returned"} /\ error # ""
BoolToNat(b) == IF b THEN 1 ELSE 0

----------------------------------------------------------------------------
(* C1: the best-model file is written once in epoch 0 and, in a later epoch, *)
(* exactly when that epoch's accuracy is strictly greater than the tracker  *)
(* carried into the epoch; a tie or a lower accuracy writes nothing, and an *)
(* epoch that did not complete lines 99-121 has written nothing to it.      *)
C1_BestWrittenOnStrictImprovement ==
    \A e \in Started :
        Cardinality(BestSavesIn(e)) =
            IF H(e).ended /\ (e = 0 \/ Gt(AccOf(e), H(e).before)) THEN 1 ELSE 0

\* three completed epochs: a tie at epoch 1 (no write), then a strictly higher
\* accuracy at epoch 2 (a write)
C1_Witness ==
    /\ pc = "epoch" /\ Ended = {0, 1, 2}
    /\ AccOf(1) = AccOf(0) /\ Gt(AccOf(2), AccOf(1))
    /\ BestSavesIn(0) # {} /\ BestSavesIn(1) = {} /\ BestSavesIn(2) # {}

----------------------------------------------------------------------------
(* C2: a periodic checkpoint epoch_<e>.pth is written by every completed     *)
(* epoch e with e mod checkpoint_epoch = 0, by no other epoch and under no   *)
(* other name, and no periodic file is written twice; after a successful run *)
(* the periodic files are those of the indices of 0..epochs-1 divisible by   *)
(* checkpoint_epoch.                                                        *)
C2_PeriodicCheckpoints ==
    /\ \A e \in Started :
         LET written == PeriodicSavesIn(e)
         IN /\ \A k \in written :
                 /\ events[k].path = checkpoint_path(config, e)
                 /\ e % config.checkpoint_epoch = 0
            /\ Cardinality(written) <= 1
            /\ H(e).ended /\ e % config.checkpoint_epoch = 0 => written # {}
    /\ Succeeded =>
         \A e \in 0..(config.epochs - 1) :
            Cardinality({k \in 1..Len(events) :
                            /\ IsSave(events[k])
                            /\ events[k].path = checkpoint_path(config, e)})
              = BoolToNat(e % config.checkpoint_epoch = 0)

\* checkpoint_epoch = 1, epochs = 3: the files of indices 0, 1, 2
C2_Witness ==
    /\ Succeeded /\ config.checkpoint_epoch = 1 /\ config.epochs = 3
    /\ {events[k].path : k \in {j \in 1..Len(events) : IsPeriodicSave(events[j])}}
         = {checkpoint_path(config, e) : e \in 0..2}

\* checkpoint_epoch = 2, epochs = 3: index 1 is skipped
C2_WitnessSkip ==
    /\ Succeeded /\ config.checkpoint_epoch = 2 /\ config.epochs = 3
    /\ PeriodicSavesIn(1) = {} /\ PeriodicSavesIn(2) # {}

----------------------------------------------------------------------------
(* C3: a failure inside the epoch/batch loop is caught: train goes to its    *)
(* handler and returns (the process does not die), the handler emits one     *)
(* alert iff config['wandb'] and one log-error line iff config['log'], and   *)
(* from the failure on no batch is processed, no epoch is started and        *)
(* nothing is saved.                                                        *)
C3_ErrorsReported ==
    /\ cli = NoArgs => pc # "crashed"
    /\ pc = "except" => error # "" /\ ENABLED Except
    /\ Cardinality({k \in 1..Len(events) : IsAlert(events[k])})
         = BoolToNat(pc = "returned" /\ error # "" /\ config.wandb)
    /\ Cardinality({k \in 1..Len(events) : IsErrorLine(events[k])})
         = BoolToNat(pc = "returned" /\ error # "" /\ config.log)
    /\ \A k \in 1..Len(events) :
         IsAlert(events[k]) \/ IsErrorLine(events[k]) => events[k].text = error

C3_HaltsAfterFailure ==
    Failed =>
        /\ pc' = "returned"
        /\ UNCHANGED <<epoch, i, params, total_samples, total_correct,
                       best_accuracy, hist, error>>
        /\ SelectSeq(events', IsSave) = SelectSeq(events, IsSave)

C3_FailureBoundary == []C3_ErrorsReported /\ [][C3_HaltsAfterFailure]_vars

\* the data source raises in the middle of the second epoch; only the
\* tracking sink is enabled
C3_Witness ==
    /\ pc = "returned" /\ error = "data source error"
    /\ epoch = 1 /\ i = 1 /\ epoch + 1 < config.epochs
    /\ config.wandb /\ ~config.log
    /\ \E k \in 1..Len(events) : IsAlert(events[k])

----------------------------------------------------------------------------
(* C4: the checkpoint files written, their order and their contents are a    *)
(* function of the epochs run, their accuracies and checkpoint_epoch alone   *)
(* (the sink flags do not occur in it), and with both flags off nothing is   *)
(* sent to either sink.                                                     *)

\* what the completed epochs 0..n-1 must have saved, from the history alone
RECURSIVE SavesOfEpochs(_, _)
SavesOfEpochs(acc, n) ==
    IF n = 0 THEN <<>>
    ELSE LET e == n - 1
         IN SavesOfEpochs(acc, e)
            \o (IF e % config.checkpoint_epoch = 0
                THEN <<Save(checkpoint_path(config, e), H(e).params)>> ELSE <<>>)
            \o (IF ArgMax(acc, e) = e
                THEN <<Save(config.best_model_path, H(e).params)>> ELSE <<>>)

C4_FlagsGateOnlySinks ==
    /\ ~config.wandb /\ ~config.log => \A k \in 1..Len(events) : IsSave(events[k])
    /\ \A k \in 1..Len(events) :
         /\ events[k].op \in {"wandb.log", "wandb.finish", "wandb.alert"} => config.wandb
         /\ events[k].op \in {"logging.info", "logging.error"} => config.log
    /\ Ended = Started => Saves = SavesOfEpochs(Accs, Len(hist))

\* a successful 2-epoch run with both sinks off that wrote both kinds of file
C4_Witness ==
    /\ Succeeded /\ config.epochs = 2 /\ ~config.wandb /\ ~config.log
    /\ Len(events) >= 3
    /\ BestSavesIn(1) # {} /\ PeriodicSavesIn(1) # {}

----------------------------------------------------------------------------
(* C5: the counters are zero when an epoch starts, they count the samples    *)
(* and the correct predictions of the current epoch only, total_samples is   *)
(* the sum of the batch sizes of the epoch once the data source is drained,  *)
(* 0 <= total_correct <= total_samples, and every accuracy sent to a sink    *)
(* lies in [0, 100].                                                        *)
C5_EpochCounters ==
    /\ pc = "batch" /\ i = 0 => total_samples = 0 /\ total_correct = 0
    /\ Len(hist) > 0 =>
         /\ total_samples = H(epoch).samples
         /\ total_correct = H(epoch).correct
         /\ 0 <= total_correct /\ total_correct <= total_samples
         /\ H(epoch).drained => total_samples = SumSeq(Batches(dataloader, epoch))
    /\ \A k \in 1..Len(events) :
         /\ IsMetric(events[k]) =>
              /\ 0 <= events[k].Accuracy[1]
              /\ events[k].Accuracy[1] <= 100 * events[k].Accuracy[2]
              /\ events[k].Accuracy = AccOf(events[k].Epoch)
         /\ IsEpochLine(events[k]) => events[k].Accuracy \in 0..10000

\* the second epoch has drained a data source of two batches of different
\* sizes, some predictions right and some wrong
C5_Witness ==
    /\ pc = "epoch" /\ epoch = 1 /\ H(1).ended
    /\ Len(dataloader.sizes) = 2 /\ dataloader.sizes[1] # dataloader.sizes[2]
    /\ total_samples = 3 /\ total_correct = 2
    /\ H(0).samples = 3

----------------------------------------------------------------------------
(* C6: an epoch in which the data source yields no batch ends the run at     *)
(* that epoch with an error: no metric record and no log line for it, no     *)
(* file saved in it, the tracker as it was when the epoch started, no later  *)
(* epoch, and one error record per enabled sink once train has returned.     *)
C6_EmptyEpochReported ==
    \A e \in Started :
        H(e).drained /\ H(e).batches = 0 =>
            /\ Failed
            /\ e = Len(hist) - 1
            /\ best_accuracy = H(e).before
            /\ \A k \in Seg(e) : IsAlert(events[k]) \/ IsErrorLine(events[k])
            /\ \A k \in 1..Len(events) :
                 IsMetric(events[k]) \/ IsEpochLine(events[k]) => events[k].Epoch # e
            /\ pc = "returned" =>
                 /\ Cardinality({k \in Seg(e) : IsAlert(events[k])}) = BoolToNat(config.wandb)
                 /\ Cardinality({k \in Seg(e) : IsErrorLine(events[k])}) = BoolToNat(config.log)

\* a one-shot data source: the second epoch finds it empty, after the first
\* epoch set the tracker and saved files
C6_Witness ==
    /\ pc = "returned" /\ epoch = 1 /\ H(1).drained /\ H(1).batches = 0
    /\ epoch + 1 < config.epochs
    /\ config.wandb /\ config.log
    /\ best_accuracy # Unbound /\ BestSavesIn(0) # {}
    /\ error = "division by zero"

----------------------------------------------------------------------------
(* C7: wandb.finish() is called once iff config['wandb'] and the 'Best       *)
(* accuracy' line is written once iff config['log'] when train has returned  *)
(* after config['epochs'] completed epochs, both after every other call and  *)
(* with no alert or error line; in every other state, a failed run included, *)
(* neither has happened.                                                    *)
C7_FinishOnlyOnSuccess ==
    LET finishes == {k \in 1..Len(events) : IsFinish(events[k])}
        bestlines == {k \in 1..Len(events) : IsBestLine(events[k])}
        done == pc = "returned" /\ error = ""
    IN /\ Cardinality(finishes) = BoolToNat(done /\ config.wandb)
       /\ Cardinality(bestlines) = BoolToNat(done /\ config.log)
       /\ done =>
            /\ Ended = 0..(config.epochs - 1)
            /\ \A k \in 1..Len(events) : ~IsAlert(events[k]) /\ ~IsErrorLine(events[k])
            /\ \A k \in finishes \cup bestlines :
                 \A j \in 1..Len(events) :
                    j \notin finishes \cup bestlines => j < k

\* a successful 2-epoch run with both sinks on
C7_Witness ==
    /\ Succeeded /\ config.epochs = 2 /\ config.wandb /\ config.log
    /\ IsFinish(events[Len(events) - 1]) /\ IsBestLine(events[Len(events)])

\* a run that failed at a torch.save of its second epoch, both sinks on
C7_WitnessFailed ==
    /\ pc = "returned" /\ error = "torch.save" /\ epoch = 1
    /\ config.wandb /\ config.log

----------------------------------------------------------------------------
(* C8: started from the command line with a readable configuration file,    *)
(* the process gets past set_config with the merged configuration (flags    *)
(* over file values, derived paths set) and enters train.                    *)
C8_EntryPointReachesTrain ==
    cli # NoArgs /\ pc # "main" =>
        /\ pc # "crashed"
        /\ config.wandb = (cli.wandb /\ ~cli.debug)
        /\ config.log = (cli.log /\ ~cli.debug)
        /\ config.best_model_path = BestModelPath
        /\ config.model_path = ModelPath

----------------------------------------------------------------------------
(* C9: an epoch that drained the data source after at least one batch has    *)
(* one record in each enabled sink and none in a disabled one; the records   *)
(* carry the epoch index, appear in increasing epoch order and before every  *)
(* save of their epoch, and their loss is the loss of the last batch of that *)
(* epoch.                                                                   *)
C9_EpochRecords ==
    LET records == SelectSeq(events, LAMBDA ev : IsMetric(ev) \/ IsEpochLine(ev))
    IN /\ \A e \in Started :
            LET seg == Seg(e)
                metrics == {k \in seg : IsMetric(events[k])}
                lines == {k \in seg : IsEpochLine(events[k])}
                recorded == H(e).drained /\ H(e).batches >= 1
            IN /\ Cardinality(metrics) = BoolToNat(recorded /\ config.wandb)
               /\ Cardinality(lines) = BoolToNat(recorded /\ config.log)
               /\ \A k \in metrics \cup lines :
                    /\ events[k].Epoch = e
                    /\ events[k].Loss = criterion(e, H(e).batches - 1)
                    /\ events[k].Loss = H(e).loss
                    /\ \A j \in seg : IsSave(events[j]) => k < j
       /\ \A k \in 1..(Len(records) - 1) : records[k].Epoch <= records[k + 1].Epoch

\* two completed epochs of two batches each, both sinks on
C9_Witness ==
    /\ pc = "epoch" /\ Ended = {0, 1} /\ H(0).batches = 2 /\ H(1).batches = 2
    /\ config.wandb /\ config.log
    /\ \E k \in Seg(1) : IsMetric(events[k]) /\ events[k].Loss = <<1, 1>>

----------------------------------------------------------------------------
(* C10: after every completed epoch the tracker is the largest accuracy so   *)
(* far, it never decreases, the best-model file holds the parameters of the  *)
(* end of the earliest epoch that reached that accuracy, and the 'Best       *)
(* accuracy' line of a successful run shows the largest accuracy of the run  *)
(* (to two decimals).                                                       *)
C10_TrackerIsMaximum ==
    LET acc == Accs
    IN /\ \A e \in Started :
            /\ e > 0 => H(e).before = MaxAcc(acc, e - 1)
            /\ e > 1 => ~Gt(H(e - 1).before, H(e).before)
       /\ Started # {} /\ Ended = Started =>
            LET last == Len(hist) - 1
                first == ArgMax(acc, last)
                best == {k \in 1..Len(events) : IsBestSave(events[k])}
            IN /\ best_accuracy = MaxAcc(acc, last)
               /\ \E k \in best :
                    /\ \A j \in best : j <= k
                    /\ events[k].state = H(first).params
                    /\ k \in Seg(first)
               /\ \A k \in 1..Len(events) :
                    IsBestLine(events[k]) => events[k].Accuracy = Fmt2(MaxAcc(acc, last))

\* three completed epochs: the maximum is reached first at epoch 1 and again
\* at epoch 2; the file holds the parameters of the end of epoch 1, and the
\* final line shows 66.67 for 200/3
C10_Witness ==
    /\ Succeeded /\ config.epochs = 3 /\ config.log
    /\ Gt(AccOf(1), AccOf(0)) /\ AccOf(2) = AccOf(1)
    /\ best_accuracy = <<200, 3>>
    /\ events[Len(events)].Accuracy = 6667
    /\ \E k \in BestSavesIn(1) : events[k].state = H(1).params /\ H(1).params < params

====
